---- MODULE Spec2Model ----
(***************************************************************************)
(* Model of the DL24M electronic-load driver (src/instruments/dl24m.py):   *)
(* frame construction, the resynchronizing read of writeFunction, value    *)
(* decoding (getVal) and encoding (setVal), the verify/retry loop of       *)
(* command and the poll cycle of readAll.                                  *)
(*                                                                         *)
(* The serial channel is the pyvisa SerialInstrument the driver is given:  *)
(* read_bytes(n) returns exactly n bytes, or raises on the read timeout    *)
(* when fewer than n bytes arrive (the bytes it got are lost with it);     *)
(* write_raw either writes the frame or raises.                            *)
(*                                                                         *)
(* Numbers are kept exactly, in thousandths: a Python number x is the      *)
(* integer 1000*x.  Every number the driver decodes is raw/1, raw/100 or   *)
(* raw/1000, and == on two such numbers is equality of the thousandths.    *)
(***************************************************************************)
EXTENDS Integers, Sequences, FiniteSets, TLC

\* ---------------------------------------------------------------- registers
ISON == 16
VOLTAGE == 17
CURRENT == 18
TIME == 19
CAP_AH == 20
CAP_WH == 21
TEMP == 22
LIM_CURR == 23
LIM_VOLT == 24
TIMER == 25

OUTPUT_ON == 1
SETCURR == 2
SETVCUT == 3
SETTMR == 4
RESETCNT == 5

DISABLED == 0

\* framing bytes
HDR_OUT0 == 177
HDR_OUT1 == 178
END_OUT == 182
HDR_IN0 == 202
HDR_IN1 == 203
END_IN0 == 206
END_IN1 == 207
ACK == 111
RESP_LEN == 8
QUERY_MIN == 16
ATTEMPTS == 3

\* mutant of MUL: the default of the except branch taken as 1
MUL_Mut(command) ==
  IF command \in {ISON, TEMP} THEN 1
  ELSE IF command \in {LIM_CURR, LIM_VOLT} THEN 100
  ELSE IF command \in {VOLTAGE, CURRENT, CAP_AH, CAP_WH} THEN 1000
  ELSE 1

\* MUL, with the default of getVal's except branch for a register not in it
MUL(command) ==
  IF command \in {ISON, TEMP} THEN 1
  ELSE IF command \in {LIM_CURR, LIM_VOLT} THEN 100
  ELSE 1000

KEY_CMDS ==
  [ is_on |-> ISON, voltage |-> VOLTAGE, current |-> CURRENT, time |-> TIME,
    cap_ah |-> CAP_AH, cap_wh |-> CAP_WH, temp |-> TEMP,
    set_current |-> LIM_CURR, set_voltage |-> LIM_VOLT, set_timer |-> TIMER ]

Keys == DOMAIN KEY_CMDS

FREQ_VALS == << "is_on", "voltage", "current", "time", "cap_ah" >>

AUX_VALS == << "cap_wh", "temp", "set_current", "set_voltage", "set_timer" >>

\* Instrument.COMMAND_* names -> set command code
COMMANDS ==
  [ enable |-> OUTPUT_ON, set_voltage |-> SETVCUT, set_current |-> SETCURR,
    set_timer |-> SETTMR, reset |-> RESETCNT ]

VERIFY_CMD ==
  [ enable |-> "is_on", set_voltage |-> "set_voltage",
    set_current |-> "set_current", set_timer |-> "set_timer",
    reset |-> "cap_ah" ]

\* ------------------------------------------------------------------- values
\* A Python value: an int or a float (n = thousandths) or a datetime.time.
Num(kind, n) == [kind |-> kind, n |-> n, hh |-> 0, mm |-> 0, ss |-> 0]
PyInt(v) == Num("int", 1000 * v)
PyFloat(n) == Num("float", n)
PyTime(h, m, s) == [kind |-> "time", n |-> 0, hh |-> h, mm |-> m, ss |-> s]

\* Python's ==: numbers compare by value whatever their type, a time only
\* equals a time.
PyEq(a, b) ==
  IF a.kind = "time" \/ b.kind = "time"
  THEN a.kind = b.kind /\ a.hh = b.hh /\ a.mm = b.mm /\ a.ss = b.ss
  ELSE a.n = b.n

\* self.data after __init__
InitData ==
  [ is_on |-> PyFloat(0), voltage |-> PyFloat(0), current |-> PyFloat(0),
    time |-> PyTime(0, 0, 0), cap_ah |-> PyFloat(0), cap_wh |-> PyFloat(0),
    temp |-> PyInt(0), set_current |-> PyFloat(0), set_voltage |-> PyFloat(0),
    set_timer |-> PyTime(0, 0, 0) ]

\* ------------------------------------------------------------------- frames
\* frame = bytearray([0xB1, 0xB2, command, *value, 0xB6])
OutFrame(command, value) ==
  << HDR_OUT0, HDR_OUT1, command >> \o value \o << END_OUT >>

\* bytearray() raises ValueError for an element outside 0..255
ByteOk(value) == \A k \in 1..Len(value) : value[k] \in 0..255

\* an 8-byte response of the device
InFrame(command, p) ==
  << HDR_IN0, HDR_IN1, command, p[1], p[2], p[3], END_IN0, END_IN1 >>

\* ------------------------------------------------------------------ channel
\* device.read_bytes(n) on the unread input buf: n bytes, or the timeout
\* raises and what had arrived is gone.
ReadBytes(buf, n) ==
  IF Len(buf) >= n
  THEN [ok |-> TRUE, bytes |-> SubSeq(buf, 1, n), rest |-> SubSeq(buf, n + 1, Len(buf))]
  ELSE [ok |-> FALSE, bytes |-> << >>, rest |-> << >>]

\* What writeFunction hands back: None, False or the bytes read.
RetNone(buf) == [kind |-> "None", bytes |-> << >>, rest |-> buf]
RetFalse(buf) == [kind |-> "False", bytes |-> << >>, rest |-> buf]
RetBytes(b, buf) == [kind |-> "bytes", bytes |-> b, rest |-> buf]

\* bytes_read.index(0xCA): first position (1-based) of 0xCA, 0 for ValueError
RECURSIVE IndexFrom(_, _)
IndexFrom(b, k) ==
  IF k > Len(b) THEN 0
  ELSE IF b[k] = HDR_IN0 THEN k
  ELSE IndexFrom(b, k + 1)

IndexCA(b) == IndexFrom(b, 1)

\* Operators below take what a read returned as a parameter, one read each.
RECURSIVE SeekCA(_, _), ScanHeader(_, _)

ReadFailed(r) == [ok |-> FALSE, bytee |-> << >>, rest |-> r.rest]

\* bytee = self.device.read_bytes(1), and the test of the inner while again
SeekNext(r) == IF ~r.ok THEN ReadFailed(r) ELSE SeekCA(r.bytes, r.rest)

\* while(bytee[0] != 0xCA): bytee = self.device.read_bytes(1)
SeekCA(bytee, buf) ==
  IF bytee[1] = HDR_IN0 THEN [ok |-> TRUE, bytee |-> bytee, rest |-> buf]
  ELSE SeekNext(ReadBytes(buf, 1))

\* bytee += self.device.read_bytes(1), and the test of the outer while again
ScanAppend(bytee, r) ==
  IF ~r.ok THEN ReadFailed(r) ELSE ScanHeader(bytee \o r.bytes, r.rest)

ScanSecond(s) ==
  IF ~s.ok THEN s ELSE ScanAppend(s.bytee, ReadBytes(s.rest, 1))

\* while (len(bytee) != 2 or bytee[0] != 0xCA or bytee[1] != 0xCB): ...
\* (the loop of lines 236-241, 245-250 and 255-260, the same text three times)
ScanHeader(bytee, buf) ==
  IF Len(bytee) = 2 /\ bytee[1] = HDR_IN0 /\ bytee[2] = HDR_IN1
  THEN [ok |-> TRUE, bytee |-> bytee, rest |-> buf]
  ELSE ScanSecond(SeekCA(IF Len(bytee) = 2 THEN << bytee[2], 0 >> ELSE bytee,
                         buf))

\* mutant of CompleteRead: the bytes already held are dropped
CompleteRead_Mut(response, more) ==
  IF ~more.ok THEN RetFalse(more.rest)
  ELSE RetBytes(more.bytes, more.rest)

\* response += self.device.read_bytes(bytes_left), and
\* bytes_read = bytee + self.device.read_bytes(6)
CompleteRead(response, more) ==
  IF ~more.ok THEN RetFalse(more.rest)
  ELSE RetBytes(response \o more.bytes, more.rest)

ScanTail(h) ==
  IF ~h.ok THEN RetFalse(h.rest)
  ELSE CompleteRead(h.bytee, ReadBytes(h.rest, RESP_LEN - 2))

\* the scan, then the six bytes after the header
ScanFrame(bytee, buf) == ScanTail(ScanHeader(bytee, buf))

\* mutant of Resync: a 0xCA in the last byte of the first read is forgotten
Resync_Mut(b, idx, rest) ==
  IF idx < 0 THEN ScanFrame(<< 0 >>, rest)
  ELSE IF idx + 1 < RESP_LEN
       THEN IF b[idx + 2] = HDR_IN1
            THEN CompleteRead(SubSeq(b, idx + 1, Len(b)),
                              ReadBytes(rest, RESP_LEN - (Len(b) - idx)))
            ELSE ScanFrame(<< 0 >>, rest)
       ELSE ScanFrame(<< 0 >>, rest)

\* lines 225-261: b is what was read first, idx is bytes_read.index(0xCA)
\* (-1 for its ValueError), rest the input after b
Resync(b, idx, rest) ==
  IF idx < 0 THEN ScanFrame(<< 0 >>, rest)
  ELSE IF idx + 1 < RESP_LEN
       THEN IF b[idx + 2] = HDR_IN1
            THEN CompleteRead(SubSeq(b, idx + 1, Len(b)),
                              ReadBytes(rest, RESP_LEN - (Len(b) - idx)))
            ELSE ScanFrame(<< 0 >>, rest)
       ELSE ScanFrame(<< b[idx + 1] >>, rest)

\* lines 222-223: the 8 bytes read first are returned when they begin with
\* 0xCA 0xCB
ReadFirst(first) ==
  IF ~first.ok THEN RetFalse(first.rest)
  ELSE IF first.bytes[1] = HDR_IN0 /\ first.bytes[2] = HDR_IN1
       THEN RetBytes(first.bytes, first.rest)
       ELSE Resync(first.bytes, IndexCA(first.bytes) - 1, first.rest)

\* lines 222-262: the read of a query's response
ReadResponse(buf) == ReadFirst(ReadBytes(buf, RESP_LEN))

\* writeFunction(command, value) for a frame that can be built (ByteOk):
\* wok is whether write_raw succeeds, buf the input that arrives.
writeFunction(command, value, buf, wok) ==
  IF ~wok THEN RetFalse(buf)
  ELSE IF command < QUERY_MIN THEN RetNone(buf)
  ELSE ReadResponse(buf)

\* ------------------------------------------------------------------- getVal
\* the three early returns of getVal (lines 171-180)
Rejected(ret, command) ==
  \/ ret.kind # "bytes"
  \/ Len(ret.bytes) = 0
  \/ (Len(ret.bytes) = 1 /\ ret.bytes[1] = ACK)
  \/ Len(ret.bytes) < 8
  \/ ret.bytes[1] # HDR_IN0 \/ ret.bytes[2] # HDR_IN1
  \/ ret.bytes[7] # END_IN0 \/ ret.bytes[8] # END_IN1
  \/ ret.bytes[3] # command

\* datetime.time(hh, mm, ss) raises ValueError outside these ranges
TimeOk(hh, mm, ss) == hh \in 0..23 /\ mm \in 0..59 /\ ss \in 0..59

\* int.from_bytes(ret[3:6], byteorder='big')
FromBytes(b) == b[4] * 65536 + b[5] * 256 + b[6]

\* getVal on what writeFunction returned: False, a value, or the ValueError
\* of time() passing through to the caller
getVal(ret, command) ==
  IF Rejected(ret, command) THEN [kind |-> "False", val |-> PyInt(0)]
  ELSE IF command = TIME \/ command = TIMER
       THEN IF TimeOk(ret.bytes[4], ret.bytes[5], ret.bytes[6])
            THEN [kind |-> "value",
                  val |-> PyTime(ret.bytes[4], ret.bytes[5], ret.bytes[6])]
            ELSE [kind |-> "raised", val |-> PyInt(0)]
       ELSE [kind |-> "value",
             val |-> PyFloat((FromBytes(ret.bytes) * 1000) \div MUL(command))]

\* ------------------------------------------------------------------- setVal
\* mutant of setValPayload: an integer encoded on three bytes
setValPayload_Mut(command, value) ==
  IF value.kind = "float"
  THEN [ok |-> TRUE, p |-> << value.n \div 1000, (value.n % 1000) \div 10 >>]
  ELSE IF value.kind = "time"
  THEN LET secs == value.ss + value.mm * 60 + value.hh * 3600
       IN [ok |-> secs \in 0..65535, p |-> << secs \div 256, secs % 256 >>]
  ELSE IF command = OUTPUT_ON /\ value.n # 0
  THEN [ok |-> TRUE, p |-> << 1, 0 >>]
  ELSE LET v == value.n \div 1000
       IN [ok |-> v \in 0..65535, p |-> << 0, v \div 256, v % 256 >>]

\* mutant of setValPayload: the fraction scaled by 10 and not by 100
setValPayload_MutF(command, value) ==
  IF value.kind = "float"
  THEN [ok |-> TRUE, p |-> << value.n \div 1000, (value.n % 1000) \div 100 >>]
  ELSE IF value.kind = "time"
  THEN LET secs == value.ss + value.mm * 60 + value.hh * 3600
       IN [ok |-> secs \in 0..65535, p |-> << secs \div 256, secs % 256 >>]
  ELSE IF command = OUTPUT_ON /\ value.n # 0
  THEN [ok |-> TRUE, p |-> << 1, 0 >>]
  ELSE LET v == value.n \div 1000
       IN [ok |-> v \in 0..65535, p |-> << v \div 256, v % 256 >>]

\* the two payload bytes setVal builds; ok = FALSE when to_bytes(2) raises
\* OverflowError (a value outside 0..65535).  A float is taken at exact
\* hundredths (n is a multiple of 10), where round(f * 100) is f * 100.
setValPayload(command, value) ==
  IF value.kind = "float"
  THEN [ok |-> TRUE, p |-> << value.n \div 1000, (value.n % 1000) \div 10 >>]
  ELSE IF value.kind = "time"
  THEN LET secs == value.ss + value.mm * 60 + value.hh * 3600
       IN [ok |-> secs \in 0..65535, p |-> << secs \div 256, secs % 256 >>]
  ELSE IF command = OUTPUT_ON /\ value.n # 0
  THEN [ok |-> TRUE, p |-> << 1, 0 >>]
  ELSE LET v == value.n \div 1000
       IN [ok |-> v \in 0..65535, p |-> << v \div 256, v % 256 >>]

\* setVal raises to its caller when the payload or the frame cannot be built
setValOk(command, value) ==
  LET sp == setValPayload(command, value)
  IN sp.ok /\ ByteOk(sp.p)

\* ------------------------------------------------------- update_val, cursor
\* mutant of update_val: the store without the test for False
update_val_Mut(d, key, gv) == [d EXCEPT ![key] = gv.val]

\* update_val: if (value is not False): self.data[key] = value
update_val(d, key, gv) ==
  IF gv.kind = "value" THEN [d EXCEPT ![key] = gv.val] ELSE d

\* __next_aux
next_aux(ai) == IF ai + 1 >= Len(AUX_VALS) THEN 0 ELSE ai + 1

\* -------------------------------------------------------------------- state
VARIABLES
  data,       \* self.data: key -> last value stored
  aux_index,  \* self.aux_index
  pc,         \* the call in progress and its position; after it ends, how
  inbuf,      \* bytes in the channel's input buffer, not yet read
  sent,       \* frames handed to write_raw since the call began
  cleared,    \* what __clear_device did in this call: "no", "ok", "failed"
  last,       \* the last register read: its reply, what writeFunction and
              \* getVal returned
  faults,     \* replies so far that were not the device's usual one
  lastAux,    \* auxiliary key the last shallow cycle queried ("none": none)
  stream      \* the input a scan started from (scanner specification)

vars == << data, aux_index, pc, inbuf, sent, cleared, last, faults, lastAux, stream >>

\* ------------------------------------------------------------------- bounds
MaxFaults == 2
MaxBuf == 1
MaxPrefix == 8

\* -------------------------------------------------------------- environment
CLEARDATA == 32

\* what the device usually answers for a register
DevPayload(command) ==
  CASE command = ISON -> << 0, 0, 1 >>
    [] command = VOLTAGE -> << 0, 3, 232 >>
    [] command = TIME -> << 1, 2, 3 >>
    [] command = CAP_AH -> << 0, 0, 7 >>
    [] command = TEMP -> << 0, 0, 25 >>
    [] command = LIM_CURR -> << 0, 0, 100 >>
    [] command = LIM_VOLT -> << 0, 4, 210 >>
    [] command = TIMER -> << 0, 0, 5 >>
    [] OTHER -> << 0, 0, 0 >>

\* another answer: the counter after a reset, output off, other readings
AltPayload(command) ==
  CASE command \in {CAP_AH, ISON} -> << 0, 0, 0 >>
    [] OTHER -> << 0, 0, 2 >>

\* hours beyond 23, as a running timer or a shifted frame gives
LongPayload == << 24, 0, 0 >>

FaultKinds(command) ==
  {"none", "ack", "echo", "footer", "alt", "spur", "junk", "wfail"}
    \cup (IF command \in {TIME, TIMER} THEN {"long"} ELSE {})

EnvKinds(command) ==
  {"ok"} \cup (IF faults < MaxFaults THEN FaultKinds(command) ELSE {})

\* the bytes that arrive after a query frame was written
DeviceReply(kind, command) ==
  LET frame == InFrame(command, DevPayload(command))
  IN CASE kind = "ok" -> frame
       [] kind = "alt" -> InFrame(command, AltPayload(command))
       [] kind = "long" -> InFrame(command, LongPayload)
       [] kind = "ack" -> << ACK >>
       [] kind = "echo" -> InFrame(CLEARDATA, DevPayload(command))
       [] kind = "footer" -> SubSeq(frame, 1, 7) \o << 0 >>
       [] kind = "spur" -> << HDR_IN0, 0 >> \o frame
       [] kind = "junk" -> << ACK >> \o frame
       [] OTHER -> << >>

\* command(name, value) calls the surrounding application makes
CmdInputs ==
  { << "enable", PyInt(1) >>, << "enable", PyInt(0) >>,
    << "set_voltage", PyFloat(12340) >>, << "set_timer", PyTime(0, 0, 5) >>,
    << "set_timer", PyTime(23, 0, 0) >>, << "reset", PyInt(0) >>,
    << "calibrate", PyInt(0) >> }

\* streams a scan is started on: junk and sync bytes, then one true frame
ScanFrameIn == InFrame(VOLTAGE, DevPayload(VOLTAGE))

ScanStreams ==
  { pre \o ScanFrameIn :
      pre \in UNION { [1..k -> {HDR_IN0, HDR_IN1, ACK}] : k \in 0..MaxPrefix } }

\* ------------------------------------------------------------ one exchange
NoLast == [command |-> 0, env |-> "none", kind |-> "None", bytes |-> << >>,
           got |-> "False"]

\* update_val(key) = getVal(KEY_CMDS[key]) and the store, on the reply `kind`:
\* ret is what writeFunction returned, gv what getVal returned
ExchangeGot(key, kind, ret, gv) ==
  [ data |-> update_val(data, key, gv),
    inbuf |-> ret.rest,
    frame |-> OutFrame(KEY_CMDS[key], << 0, 0 >>),
    raised |-> gv.kind = "raised",
    last |-> [command |-> KEY_CMDS[key], env |-> kind, kind |-> ret.kind,
              bytes |-> ret.bytes, got |-> gv.kind] ]

ExchangeRet(key, kind, ret) ==
  ExchangeGot(key, kind, ret, getVal(ret, KEY_CMDS[key]))

Exchange(key, kind) ==
  ExchangeRet(key, kind,
    writeFunction(KEY_CMDS[key], << 0, 0 >>,
                  inbuf \o DeviceReply(kind, KEY_CMDS[key]), kind # "wfail"))

Cost(kind) == IF kind = "ok" THEN 0 ELSE 1

NoCall == [op |-> "none", phase |-> "new", ret |-> "none", i |-> 0,
           cmd |-> "none", value |-> PyInt(0), attempt |-> 0,
           deep |-> FALSE, verified |-> FALSE]

\* the call has ended: it returned ret, or an exception left it
Returned(p, ret) == [p EXCEPT !.phase = "returned", !.ret = ret]
Raised(p) == [p EXCEPT !.phase = "raised", !.ret = "raised"]

\* no call is in progress
Idle == pc.phase \in {"new", "returned", "raised"}

Init ==
  /\ data = InitData
  /\ aux_index = 0
  /\ pc = NoCall
  /\ inbuf = << >>
  /\ sent = << >>
  /\ cleared = "no"
  /\ last = NoLast
  /\ faults = 0
  /\ lastAux = "start"
  /\ stream = << >>

\* ------------------------------------------------------------------ readAll
\* readAll(read_all_aux) is entered: __clear_device, whose failure is caught
ReadAllCall(deep) ==
  /\ Idle
  /\ \E cok \in BOOLEAN :
       /\ (~cok => faults < MaxFaults)
       /\ inbuf' = (IF cok THEN << >> ELSE inbuf)
       /\ cleared' = (IF cok THEN "ok" ELSE "failed")
       /\ faults' = faults + (IF cok THEN 0 ELSE 1)
  /\ pc' = [NoCall EXCEPT !.op = "readAll", !.phase = "freq", !.i = 1,
                          !.deep = deep]
  /\ sent' = << >>
  /\ last' = NoLast
  /\ UNCHANGED << data, aux_index, lastAux, stream >>

\* self.update_vals(DL24M.FREQ_VALS), one key a step
ReadAllFreq ==
  /\ pc.op = "readAll" /\ pc.phase = "freq"
  /\ \E kind \in EnvKinds(KEY_CMDS[FREQ_VALS[pc.i]]) :
       LET x == Exchange(FREQ_VALS[pc.i], kind)
       IN /\ data' = x.data
          /\ inbuf' = x.inbuf
          /\ sent' = Append(sent, x.frame)
          /\ last' = x.last
          /\ faults' = faults + Cost(kind)
          /\ pc' = IF x.raised THEN Raised(pc)
                   ELSE IF pc.i < Len(FREQ_VALS) THEN [pc EXCEPT !.i = pc.i + 1]
                   ELSE [pc EXCEPT !.phase = "aux", !.i = 1]
          /\ lastAux' = IF x.raised /\ ~pc.deep THEN "none" ELSE lastAux
  /\ UNCHANGED << aux_index, cleared, stream >>

\* if read_all_aux: self.update_vals(DL24M.AUX_VALS), one key a step
ReadAllAuxAll ==
  /\ pc.op = "readAll" /\ pc.phase = "aux" /\ pc.deep
  /\ \E kind \in EnvKinds(KEY_CMDS[AUX_VALS[pc.i]]) :
       LET x == Exchange(AUX_VALS[pc.i], kind)
       IN /\ data' = x.data
          /\ inbuf' = x.inbuf
          /\ sent' = Append(sent, x.frame)
          /\ last' = x.last
          /\ faults' = faults + Cost(kind)
          /\ pc' = IF x.raised THEN Raised(pc)
                   ELSE IF pc.i < Len(AUX_VALS) THEN [pc EXCEPT !.i = pc.i + 1]
                   ELSE Returned(pc, "data")
  /\ UNCHANGED << aux_index, cleared, lastAux, stream >>

\* else: self.update_val(DL24M.AUX_VALS[self.__next_aux()])
ReadAllAuxOne ==
  /\ pc.op = "readAll" /\ pc.phase = "aux" /\ ~pc.deep
  /\ aux_index' = next_aux(aux_index)
  /\ \E kind \in EnvKinds(KEY_CMDS[AUX_VALS[aux_index' + 1]]) :
       LET x == Exchange(AUX_VALS[aux_index' + 1], kind)
       IN /\ data' = x.data
          /\ inbuf' = x.inbuf
          /\ sent' = Append(sent, x.frame)
          /\ last' = x.last
          /\ faults' = faults + Cost(kind)
          /\ pc' = IF x.raised THEN Raised(pc) ELSE Returned(pc, "data")
  /\ lastAux' = AUX_VALS[aux_index' + 1]
  /\ UNCHANGED << cleared, stream >>

\* ------------------------------------------------------------------ command
\* mutant of CommandCall: no test of the name, COMMANDS[command] raises
CommandCall_Mut(command, value) ==
  /\ Idle
  /\ pc' = IF command \in DOMAIN COMMANDS
           THEN [NoCall EXCEPT !.op = "command", !.phase = "set",
                               !.cmd = command, !.value = value]
           ELSE [NoCall EXCEPT !.op = "command", !.phase = "raised",
                               !.ret = "raised", !.cmd = command,
                               !.value = value]
  /\ sent' = << >>
  /\ cleared' = "no"
  /\ last' = NoLast
  /\ UNCHANGED << data, aux_index, inbuf, faults, lastAux, stream >>

\* command(command, value) is entered: an unknown name returns False
CommandCall(command, value) ==
  /\ Idle
  /\ pc' = IF command \in DOMAIN COMMANDS
           THEN [NoCall EXCEPT !.op = "command", !.phase = "set",
                               !.cmd = command, !.value = value]
           ELSE [NoCall EXCEPT !.op = "command", !.phase = "returned",
                               !.ret = "False", !.cmd = command,
                               !.value = value]
  /\ sent' = << >>
  /\ cleared' = "no"
  /\ last' = NoLast
  /\ UNCHANGED << data, aux_index, inbuf, faults, lastAux, stream >>

\* self.setVal(DL24M.COMMANDS[command], value): the frame is written, or
\* building it raises; the device may answer a set with its one-byte ack
CommandSet ==
  /\ pc.op = "command" /\ pc.phase = "set"
  /\ LET code == COMMANDS[pc.cmd]
         sp == setValPayload(code, pc.value)
     IN IF ~setValOk(code, pc.value)
        THEN /\ pc' = Raised(pc)
             /\ UNCHANGED << inbuf, sent, faults >>
        ELSE \E wok \in BOOLEAN, ack \in BOOLEAN :
               /\ (~wok => faults < MaxFaults /\ ~ack)
               /\ (ack => Len(inbuf) < MaxBuf)
               /\ LET buf == inbuf \o (IF ack THEN << ACK >> ELSE << >>)
                      ret == writeFunction(code, sp.p, buf, wok)
                  IN inbuf' = ret.rest
               /\ sent' = Append(sent, OutFrame(code, sp.p))
               /\ faults' = faults + (IF wok THEN 0 ELSE 1)
               /\ pc' = [pc EXCEPT !.phase = "verify"]
  /\ UNCHANGED << data, aux_index, cleared, last, lastAux, stream >>

\* mutant of AfterLoop: the refresh made part of the verified branch
AfterLoop_Mut(p) ==
  IF p.cmd = "reset" /\ p.verified THEN [p EXCEPT !.phase = "refresh", !.i = 1]
  ELSE Returned(p, "None")

\* where command goes when the for loop is left
AfterLoop(p) ==
  IF p.cmd = "reset" THEN [p EXCEPT !.phase = "refresh", !.i = 1]
  ELSE Returned(p, "None")

\* mutant of Verify: one pass too many (range(0, 4))
Verify_Mut(p, d) ==
  LET tried == [p EXCEPT !.attempt = p.attempt + 1]
  IN IF PyEq(d[VERIFY_CMD[p.cmd]], p.value)
     THEN AfterLoop([tried EXCEPT !.verified = TRUE])
     ELSE IF tried.attempt <= ATTEMPTS THEN [tried EXCEPT !.phase = "set"]
     ELSE AfterLoop(tried)

\* the rest of one pass of the loop, lines 158-164: the verification read,
\* the comparison with the stored value, break or the next pass
Verify(p, d) ==
  LET tried == [p EXCEPT !.attempt = p.attempt + 1]
  IN IF PyEq(d[VERIFY_CMD[p.cmd]], p.value)
     THEN AfterLoop([tried EXCEPT !.verified = TRUE])
     ELSE IF tried.attempt < ATTEMPTS THEN [tried EXCEPT !.phase = "set"]
     ELSE AfterLoop(tried)

CommandVerify ==
  /\ pc.op = "command" /\ pc.phase = "verify"
  /\ \E kind \in EnvKinds(KEY_CMDS[VERIFY_CMD[pc.cmd]]) :
       LET x == Exchange(VERIFY_CMD[pc.cmd], kind)
       IN /\ data' = x.data
          /\ inbuf' = x.inbuf
          /\ sent' = Append(sent, x.frame)
          /\ last' = x.last
          /\ faults' = faults + Cost(kind)
          /\ pc' = IF x.raised THEN Raised(pc) ELSE Verify(pc, x.data)
  /\ UNCHANGED << aux_index, cleared, lastAux, stream >>

\* if (command == Instrument.COMMAND_RESET): self.update_vals(AUX_VALS)
CommandRefresh ==
  /\ pc.op = "command" /\ pc.phase = "refresh"
  /\ \E kind \in EnvKinds(KEY_CMDS[AUX_VALS[pc.i]]) :
       LET x == Exchange(AUX_VALS[pc.i], kind)
       IN /\ data' = x.data
          /\ inbuf' = x.inbuf
          /\ sent' = Append(sent, x.frame)
          /\ last' = x.last
          /\ faults' = faults + Cost(kind)
          /\ pc' = IF x.raised THEN Raised(pc)
                   ELSE IF pc.i < Len(AUX_VALS) THEN [pc EXCEPT !.i = pc.i + 1]
                   ELSE Returned(pc, "None")
  /\ UNCHANGED << aux_index, cleared, lastAux, stream >>

\* ------------------------------------------------------------------ turnOFF
\* self.setVal(DL24M.OUTPUT_ON, DL24M.DISABLED)
turnOFF ==
  /\ Idle
  /\ LET sp == setValPayload(OUTPUT_ON, PyInt(DISABLED))
     IN \E wok \in BOOLEAN, ack \in BOOLEAN :
          /\ (~wok => faults < MaxFaults /\ ~ack)
          /\ (ack => Len(inbuf) < MaxBuf)
          /\ LET buf == inbuf \o (IF ack THEN << ACK >> ELSE << >>)
                 ret == writeFunction(OUTPUT_ON, sp.p, buf, wok)
             IN inbuf' = ret.rest
          /\ sent' = << OutFrame(OUTPUT_ON, sp.p) >>
          /\ faults' = faults + (IF wok THEN 0 ELSE 1)
  /\ pc' = [NoCall EXCEPT !.op = "turnOFF", !.phase = "returned", !.ret = "None"]
  /\ cleared' = "no"
  /\ last' = NoLast
  /\ UNCHANGED << data, aux_index, lastAux, stream >>

Next ==
  \/ \E deep \in BOOLEAN : ReadAllCall(deep)
  \/ ReadAllFreq
  \/ ReadAllAuxAll
  \/ ReadAllAuxOne
  \/ \E c \in CmdInputs : CommandCall(c[1], c[2])
  \/ CommandSet
  \/ CommandVerify
  \/ CommandRefresh
  \/ turnOFF

Spec == Init /\ [][Next]_vars

\* ------------------------------------------------- scanner specification
\* one query on each stream of ScanStreams, nothing else arriving
ScanInit ==
  /\ data = InitData
  /\ aux_index = 0
  /\ pc = [NoCall EXCEPT !.op = "scan", !.phase = "scan"]
  /\ stream \in ScanStreams
  /\ inbuf = stream
  /\ sent = << >>
  /\ cleared = "no"
  /\ last = NoLast
  /\ faults = 0
  /\ lastAux = "start"

ScanQuery ==
  /\ pc.op = "scan" /\ pc.phase = "scan"
  /\ LET x == Exchange("voltage", "none")
     IN /\ data' = x.data
        /\ inbuf' = x.inbuf
        /\ sent' = Append(sent, x.frame)
        /\ last' = x.last
        /\ pc' = Returned(pc, "None")
  /\ UNCHANGED << aux_index, cleared, faults, lastAux, stream >>

ScanNext == ScanQuery

SpecScan == ScanInit /\ [][ScanNext]_vars

\* --------------------------------------------------- codec specification
\* one call of setVal or one register read on each input, nothing else
\* happening: the values setVal can be given, the frames a read can get

\* a set code and a value for it: every time of day on the timer, every float
\* i + h/100 on the two limits, the integers of enable and reset
TimeInputs ==
  { << SETTMR, PyTime(h, m, s) >> : h \in 0..23, m \in 0..59, s \in 0..59 }

FloatInputs ==
  { << c, PyFloat(1000 * i + 10 * h) >> :
      c \in {SETCURR, SETVCUT}, i \in 0..255, h \in 0..99 }

IntInputs ==
  { << OUTPUT_ON, PyInt(1) >>, << OUTPUT_ON, PyInt(DISABLED) >>,
    << RESETCNT, PyInt(0) >> }

\* setVal(x[1], x[2]) is about to run
SetValCall(x) ==
  pc = [NoCall EXCEPT !.op = "setVal", !.phase = "call", !.i = x[1],
                      !.value = x[2]]

\* payload bytes of the frames read: small and large ones, and those around
\* the ends of the ranges of hours, minutes and seconds
PayloadBytes == {0, 1, 2, 3, 23, 24, 59, 60, 232, 255}

\* the registers queried: the ten of KEY_CMDS and one that MUL does not hold
Registers == ISON..(TIMER + 1)

\* the register queried and the 8 bytes that arrive: a frame of that register
\* or of the voltage register, whole or with its last byte wrong
\* the first payload byte: any for a duration; a number is kept in
\* thousandths, which for the scale 1 stay below 2^31 up to a first byte of 32
HighBytes(f) ==
  IF f \in {TIME, TIMER} THEN PayloadBytes ELSE { a \in PayloadBytes : a <= 32 }

ArrivingFrames(f) ==
  { SubSeq(InFrame(f, << a, b, d >>), 1, 7) \o << e >> :
      a \in HighBytes(f), b \in PayloadBytes, d \in PayloadBytes,
      e \in {END_IN1, 0} }

GetInputs ==
  UNION { { << c, fr >> : fr \in ArrivingFrames(c) \cup ArrivingFrames(VOLTAGE) } :
          c \in Registers }

\* the key of a register that has one
HasKey(command) == \E k \in Keys : KEY_CMDS[k] = command
KeyOf(command) == CHOOSE k \in Keys : KEY_CMDS[k] = command

CodecInit ==
  /\ data = InitData
  /\ aux_index = 0
  /\ sent = << >>
  /\ cleared = "no"
  /\ last = NoLast
  /\ faults = 0
  /\ lastAux = "start"
  /\ \/ /\ \/ \E x \in TimeInputs : SetValCall(x)
           \/ \E x \in FloatInputs : SetValCall(x)
           \/ \E x \in IntInputs : SetValCall(x)
        /\ stream = << >>
     \/ /\ \E x \in GetInputs :
            /\ pc = [NoCall EXCEPT !.op = "getVal", !.phase = "call", !.i = x[1]]
            /\ stream = x[2]
  /\ inbuf = stream

\* setVal(command, value): the payload is built and the frame handed to
\* write_raw, or building it raises; ret == None is what setVal returns
CodecSetVal ==
  /\ pc.op = "setVal" /\ pc.phase = "call"
  /\ LET sp == setValPayload(pc.i, pc.value)
     IN IF ~setValOk(pc.i, pc.value)
        THEN /\ pc' = Raised(pc)
             /\ UNCHANGED << inbuf, sent >>
        ELSE \E wok \in BOOLEAN :
               LET ret == writeFunction(pc.i, sp.p, inbuf, wok)
               IN /\ inbuf' = ret.rest
                  /\ sent' = << OutFrame(pc.i, sp.p) >>
                  /\ pc' = Returned(pc, IF ret.kind = "None" THEN "True"
                                        ELSE "False")
  /\ UNCHANGED << data, aux_index, cleared, last, faults, lastAux, stream >>

\* getVal(command) on the bytes that arrive, and for a register that has a
\* key the store of update_val(key); pc.value keeps what getVal returned
CodecGetVal ==
  /\ pc.op = "getVal" /\ pc.phase = "call"
  /\ LET ret == writeFunction(pc.i, << 0, 0 >>, inbuf, TRUE)
         gv == getVal(ret, pc.i)
     IN /\ inbuf' = ret.rest
        /\ sent' = << OutFrame(pc.i, << 0, 0 >>) >>
        /\ last' = [command |-> pc.i, env |-> "none", kind |-> ret.kind,
                    bytes |-> ret.bytes, got |-> gv.kind]
        /\ data' = IF HasKey(pc.i) THEN update_val(data, KeyOf(pc.i), gv)
                   ELSE data
        /\ pc' = IF gv.kind = "raised" THEN Raised(pc)
                 ELSE Returned([pc EXCEPT !.value = gv.val], gv.kind)
  /\ UNCHANGED << aux_index, cleared, faults, lastAux, stream >>

CodecNext == CodecSetVal \/ CodecGetVal

SpecCodec == CodecInit /\ [][CodecNext]_vars

\* ================================================================== claims
\* helpers of the statements below
SetFrames(frames) == { k \in 1..Len(frames) : frames[k][3] < QUERY_MIN }
QueryCodes(frames) == [ k \in 1..Len(frames) |-> frames[k][3] ]
CodesOf(keys) == [ k \in 1..Len(keys) |-> KEY_CMDS[keys[k]] ]

\* this step is one register read (update_val): a query frame was written
IsRead ==
  /\ Len(sent') = Len(sent) + 1
  /\ sent'[Len(sent')][3] >= QUERY_MIN

\* the scanned stream is pre \o ScanFrameIn
ScanPrefix == SubSeq(stream, 1, Len(stream) - Len(ScanFrameIn))

\* no 0xCA 0xCB inside pre
NoHeaderIn(pre) ==
  \A k \in 1..(Len(pre) - 1) : ~(pre[k] = HDR_IN0 /\ pre[k + 1] = HDR_IN1)

\* the query handed back the true frame and read the stream up to its end
ReturnedTrueFrame ==
  /\ last.kind = "bytes"
  /\ last.bytes = ScanFrameIn
  /\ inbuf = << >>

\* ---------------------------------------------------------------------- C1
\* what every step of a command keeps to
C1_Step ==
  /\ (pc'.op = "command" => Cardinality(SetFrames(sent')) <= ATTEMPTS)
  /\ (pc.op = "command" /\ pc.phase = "verify"
        /\ PyEq(data'[VERIFY_CMD[pc.cmd]], pc.value)
      => pc'.phase \notin {"set", "verify"})
  /\ (pc.op = "command" /\ pc.phase = "refresh"
      => pc'.op = "command" /\ pc'.phase \in {"refresh", "returned", "raised"}
         /\ SetFrames(sent') = SetFrames(sent))

\* C1: command() writes the set frame at most 3 times; once a verification
\* read leaves the stored value of the verification register equal to the
\* requested value, the loop is left: no further set frame and no further
\* verification read follow in that call.
C1_AtMostThreeStopOnMatch == [][C1_Step]_vars

\* a command that was verified on its second attempt, after a mismatch
C1_Witness ==
  /\ pc.op = "command" /\ pc.phase = "returned" /\ pc.cmd = "enable"
  /\ pc.attempt = 2
  /\ PyEq(data.is_on, pc.value)
  /\ Cardinality(SetFrames(sent)) = 2
  /\ Len(sent) = 4

\* ---------------------------------------------------------------------- C2
\* C2: when a 0xCA that is not followed by 0xCB comes before a complete valid
\* frame, the query discards it, goes on scanning and returns that frame,
\* reading each byte once, wherever the two fall in the stream.  (Each 0xCA
\* before the frame is followed here by a byte that is neither 0xCB nor 0xCA;
\* 0xCA 0xCA is C3's case.)
C2_SpuriousSyncSkipped ==
  ( /\ pc.op = "scan" /\ pc.phase = "returned"
    /\ \E k \in 1..Len(ScanPrefix) : ScanPrefix[k] = HDR_IN0
    /\ \A k \in 1..Len(ScanPrefix) :
         ScanPrefix[k] = HDR_IN0 => (k < Len(ScanPrefix) /\ ScanPrefix[k + 1] = ACK)
    /\ NoHeaderIn(ScanPrefix) )
  => ReturnedTrueFrame

\* ---------------------------------------------------------------------- C3
\* C3: when the scanning loop has read a 0xCA and the next byte is 0xCA again,
\* the second one is kept as the header candidate: on 0xCA 0xCA 0xCB and six
\* more bytes the query returns the frame that begins at the second 0xCA.
\* (The first 0xCA of the stream is read by the loop: it is the last byte of
\* the first read or comes after it.)
C3_BackToBackSyncKept ==
  ( /\ pc.op = "scan" /\ pc.phase = "returned"
    /\ Len(ScanPrefix) >= RESP_LEN
    /\ ScanPrefix[Len(ScanPrefix)] = HDR_IN0
    /\ \A k \in 1..(Len(ScanPrefix) - 1) : ScanPrefix[k] = ACK )
  => ReturnedTrueFrame

\* ---------------------------------------------------------------------- C4
\* the frame conditions of the claim, on what the query handed back
C4_Accepted(b, command) ==
  /\ Len(b) >= 8
  /\ b[1] = 202 /\ b[2] = 203
  /\ b[7] = 206 /\ b[8] = 207
  /\ b[3] = command

\* what a register read does with the response it got
C4_Step ==
  IsRead =>
    IF last'.kind = "bytes" /\ C4_Accepted(last'.bytes, last'.command)
    THEN last'.got = "value" /\ pc'.phase # "raised"
    ELSE last'.got = "False" /\ pc'.phase # "raised" /\ data' = data

\* C4: a register read stores a value if and only if the response has at
\* least 8 bytes, begins 0xCA 0xCB, ends 0xCE 0xCF at bytes 6-7 and echoes the
\* queried register in byte 2; any other response is a decode failure (not an
\* error) that leaves the stored values as they were.
C4_StoredIffValidFrame == [][C4_Step]_vars

\* ---------------------------------------------------------------------- C5
\* a step on which a read, a set or the discard of pending input failed
C5_Step ==
  ( \/ (IsRead /\ last'.env \in {"none", "ack", "echo", "footer", "wfail"})
    \/ (~IsRead /\ faults' = faults + 1) )
  => (data' = data /\ pc'.phase # "raised")

\* C5: a read that fails with NoResponse (nothing arrives), AckOnly (only the
\* byte 0x6F arrives), FrameMismatch (a frame with a wrong echo or footer) or
\* TransportError (the channel's write or read fails) is not raised to the
\* caller and leaves every entry of Device State unchanged.
C5_ReadFailuresSwallowed == [][C5_Step]_vars

\* a poll cycle that goes on after a read answered by the lone ack byte,
\* with values stored by earlier reads kept
C5_Witness ==
  /\ pc.op = "readAll" /\ pc.phase = "freq" /\ pc.i = 3
  /\ last.env = "ack" /\ last.got = "False" /\ last.command = VOLTAGE
  /\ data.is_on = PyFloat(1000)
  /\ data.voltage = PyFloat(0)

\* ---------------------------------------------------------------------- C6
\* the key after key in the fixed order, cyclically
C6_After(key) ==
  CASE key = "cap_wh" -> "temp"
    [] key = "temp" -> "set_current"
    [] key = "set_current" -> "set_voltage"
    [] key = "set_voltage" -> "set_timer"
    [] key = "set_timer" -> "cap_wh"
    [] OTHER -> "none"

\* this step ends a shallow poll cycle
C6_ShallowEnds ==
  /\ pc.op = "readAll" /\ ~pc.deep /\ pc.phase \in {"freq", "aux"}
  /\ pc'.phase \in {"returned", "raised"}

\* what every step does to the cursor and to the rotation
C6_Step ==
  /\ aux_index' \in 0..4
  /\ IF C6_ShallowEnds
     THEN /\ lastAux' \in { AUX_VALS[k] : k \in 1..5 }
          /\ lastAux \in { AUX_VALS[k] : k \in 1..5 } => lastAux' = C6_After(lastAux)
     ELSE lastAux' = lastAux
  /\ IF pc.op = "readAll" /\ ~pc.deep /\ pc.phase = "aux"
     THEN aux_index' = (aux_index + 1) % 5
     ELSE aux_index' = aux_index

\* C6: the cursor stays in 0..4; a shallow poll cycle advances it by one
\* modulo 5 and queries one auxiliary register, the one after the register
\* the shallow cycle before it queried (so five consecutive shallow cycles
\* query each of the five once, in the cyclic order cap_wh, temp, set_current,
\* set_voltage, set_timer); deep polls and commands leave the cursor alone.
C6_RoundRobin == [][C6_Step]_vars

\* ---------------------------------------------------------------------- C7
\* the loop of this command ran its three attempts and none matched
C7_Exhausted ==
  /\ pc.op = "command" /\ pc.cmd \in DOMAIN COMMANDS
  /\ pc.attempt = ATTEMPTS /\ ~pc.verified

\* C7: when the three attempts of a command end without a verified match,
\* command() still returns normally: nothing is raised, it returns None as a
\* verified command does, and the verification register keeps a value that
\* differs from the request.
C7_SoftFail ==
  (C7_Exhausted /\ Idle) =>
    /\ pc.phase = "returned" /\ pc.ret = "None"
    /\ ~PyEq(data[VERIFY_CMD[pc.cmd]], pc.value)

\* ---------------------------------------------------------------------- C8
\* the loop of this reset command has been left, by break or after 3 attempts
C8_LoopLeft ==
  /\ pc.op = "command" /\ pc.cmd = "reset"
  /\ (pc.verified \/ pc.attempt = ATTEMPTS)

\* the frames of n attempts of a reset: the set frame, the read of cap_ah
C8_LoopCodes(n) == [ k \in 1..(2 * n) |-> IF k % 2 = 1 THEN RESETCNT ELSE CAP_AH ]

\* C8 as stated: the refresh of the auxiliary registers after a reset comes
\* only after a verified match in the same call.
C8_RefreshOnlyAfterVerified ==
  (pc.op = "command" /\ pc.phase = "refresh") => pc.verified

\* C8 amended: once the verification loop of a reset command is left, by a
\* verified match or by the third attempt failing, the five auxiliary
\* registers are queried once each, in their order, after the loop's frames;
\* no other command and no earlier point of a reset queries them so.
C8_RefreshAfterLoop ==
  /\ (C8_LoopLeft /\ Idle)
       => QueryCodes(sent) = C8_LoopCodes(pc.attempt) \o CodesOf(AUX_VALS)
  /\ (pc.op = "command" /\ pc.phase = "refresh")
       => /\ C8_LoopLeft
          /\ QueryCodes(sent)
               = C8_LoopCodes(pc.attempt) \o SubSeq(CodesOf(AUX_VALS), 1, pc.i - 1)
  /\ (pc.op = "command" /\ pc.cmd \in DOMAIN COMMANDS /\ ~C8_LoopLeft)
       => \A k \in 1..Len(sent) :
            sent[k][3] \in {COMMANDS[pc.cmd], KEY_CMDS[VERIFY_CMD[pc.cmd]]}

\* a reset whose three attempts all mismatched and which then refreshed the
\* five auxiliary registers
C8_Witness ==
  /\ pc.op = "command" /\ pc.cmd = "reset" /\ pc.phase = "returned"
  /\ ~pc.verified /\ pc.attempt = ATTEMPTS
  /\ ~PyEq(data.cap_ah, pc.value)
  /\ Len(sent) = 11

\* ---------------------------------------------------------------------- C9
\* C9: every readAll cycle tries to discard pending input (a failure there
\* does not end it), queries is_on, voltage, current, time, cap_ah in that
\* order, then all five auxiliary registers (deep) or the one under the
\* cursor (shallow), whatever reads fail, and returns the Device State.
C9_PollCycle ==
  (pc.op = "readAll" /\ Idle) =>
    /\ cleared \in {"ok", "failed"}
    /\ pc.phase = "returned" /\ pc.ret = "data"
    /\ QueryCodes(sent)
         = CodesOf(FREQ_VALS)
             \o (IF pc.deep THEN CodesOf(AUX_VALS)
                 ELSE << KEY_CMDS[AUX_VALS[aux_index + 1]] >>)

\* --------------------------------------------------------------------- C10
\* C10: every frame written is 6 bytes, 0xB1 0xB2, the command code, two
\* payload bytes, 0xB6; a query frame (code >= 0x10) has payload 0x00 0x00.
C10_FrameOk(f) ==
  /\ Len(f) = 6
  /\ f[1] = 177 /\ f[2] = 178 /\ f[6] = 182
  /\ f[4] \in 0..255 /\ f[5] \in 0..255
  /\ (f[3] >= 16 => (f[4] = 0 /\ f[5] = 0))

C10_OutboundFrames == \A k \in 1..Len(sent) : C10_FrameOk(sent[k])

\* a set frame with a payload other than 0 0, followed by its query frame
C10_Witness ==
  /\ Len(sent) >= 2
  /\ sent[1] = << 177, 178, 3, 12, 34, 182 >>
  /\ sent[2] = << 177, 178, 24, 0, 0, 182 >>

\* the call of the codec specification has ended
CodecDone == pc.phase \in {"returned", "raised"}

\* --------------------------------------------------------------------- C11
\* the seconds of a time of day
C11_Seconds(t) == t.hh * 3600 + t.mm * 60 + t.ss

\* C11: for every time of day from 00:00:00 to 23:59:59 given as a set value,
\* setVal encodes hours*3600 + minutes*60 + seconds as a 2-byte big-endian
\* unsigned payload and writes the frame; none of them fails to encode.
C11_EveryDurationEncodes ==
  (pc.op = "setVal" /\ pc.value.kind = "time" /\ CodecDone) =>
    /\ pc.phase = "returned"
    /\ sent = << << 177, 178, pc.i, C11_Seconds(pc.value) \div 256,
                   C11_Seconds(pc.value) % 256, 182 >> >>

\* --------------------------------------------------------------------- C12
\* C12: for every frame that passes the structural validation on the
\* elapsed-time (0x13) or timer (0x19) register, whatever its three payload
\* bytes, the read ends without raising and stores the duration payload0
\* hours, payload1 minutes, payload2 seconds.
C12_DurationFrameDecodes ==
  ( /\ pc.op = "getVal" /\ CodecDone
    /\ pc.i \in {19, 25}
    /\ C4_Accepted(stream, pc.i) )
  => /\ pc.phase = "returned"
     /\ data[KeyOf(pc.i)] = PyTime(stream[4], stream[5], stream[6])

\* --------------------------------------------------------------------- C13
\* C13: a float set value that equals i + h/100, i in 0..255 and h in 0..99,
\* is encoded as the payload [i, h]: the frame written carries a first
\* payload byte a in 0..255 and a second b in 0..99 with a + b/100 the value
\* (12.34 gives [12, 34]).
C13_FloatPayload ==
  (pc.op = "setVal" /\ pc.value.kind = "float" /\ CodecDone) =>
    /\ pc.phase = "returned"
    /\ Len(sent) = 1 /\ Len(sent[1]) = 6
    /\ sent[1][3] = pc.i
    /\ sent[1][4] \in 0..255 /\ sent[1][5] \in 0..99
    /\ 1000 * sent[1][4] + 10 * sent[1][5] = pc.value.n

\* 12.34 set as the voltage limit
C13_Witness ==
  /\ pc.op = "setVal" /\ pc.phase = "returned"
  /\ pc.i = 3 /\ pc.value = PyFloat(12340)
  /\ sent = << << 177, 178, 3, 12, 34, 182 >> >>

\* --------------------------------------------------------------------- C14
\* the scale the claim gives for a register
C14_Scale(command) ==
  CASE command \in {16, 22} -> 1
    [] command \in {23, 24} -> 100
    [] command \in {17, 18, 20, 21} -> 1000
    [] OTHER -> 1000

\* the three payload bytes as a big-endian number
C14_Raw(b) == b[4] * 65536 + b[5] * 256 + b[6]

\* C14: for every register that is not a duration and every valid frame, the
\* decoded value is (payload0*65536 + payload1*256 + payload2) divided by the
\* scale of the register: 1 for on/off and temperature, 100 for the two
\* limits, 1000 for voltage, current and the two capacities, and 1000 for a
\* register without a table entry.  (In thousandths: raw times 1000/scale.)
C14_DecodedByScale ==
  ( /\ pc.op = "getVal" /\ CodecDone
    /\ pc.i \notin {19, 25}
    /\ C4_Accepted(stream, pc.i) )
  => /\ pc.phase = "returned" /\ pc.ret = "value"
     /\ pc.value.kind = "float"
     /\ pc.value.n = C14_Raw(stream) * (1000 \div C14_Scale(pc.i))
     /\ (HasKey(pc.i) => data[KeyOf(pc.i)] = pc.value)

\* payload 00 03 E8 on the voltage register decoded as 1.0
C14_Witness ==
  /\ pc.op = "getVal" /\ pc.phase = "returned"
  /\ stream = << 202, 203, 17, 0, 3, 232, 206, 207 >>
  /\ pc.value = PyFloat(1000)
  /\ data.voltage = PyFloat(1000)

\* --------------------------------------------------------------------- C15
\* the query went into the scanning loop: the 8 bytes read first hold no
\* 0xCA followed by 0xCB at their first 0xCA
C15_Scanning ==
  \/ IndexCA(SubSeq(stream, 1, 8)) \in {0, 8}
  \/ stream[IndexCA(SubSeq(stream, 1, 8)) + 1] # 203

\* 0xCA 0xCB and six more bytes at position j of the stream, all of them
\* unread when the scan begins
C15_HeaderAhead(j) ==
  /\ j > 8 /\ j + 7 <= Len(stream)
  /\ stream[j] = 202 /\ stream[j + 1] = 203

\* C15: a resynchronizing query stops on a header and does not read past
\* one: when a 0xCA 0xCB pair followed by 6 bytes is ahead in the unread
\* stream as the scan begins, the query ends with an 8-byte frame that begins
\* 0xCA 0xCB, having read no further than the end of the frame at that pair.
C15_StopsOnHeader ==
  ( /\ pc.op = "scan" /\ pc.phase = "returned"
    /\ C15_Scanning )
  => \A j \in 1..Len(stream) :
       C15_HeaderAhead(j) =>
         /\ last.kind = "bytes" /\ Len(last.bytes) = 8
         /\ last.bytes[1] = 202 /\ last.bytes[2] = 203
         /\ Len(stream) - Len(inbuf) <= j + 7

\* --------------------------------------------------------------------- C16
\* C16: k >= 1 bytes of junk, none of them 0xCA, and then a complete valid
\* frame of the queried register: the query returns that frame and has read
\* k + 8 bytes, whether the frame begins inside the first 8-byte read, at
\* its last byte or after it.
C16_JunkSkipped ==
  ( /\ pc.op = "scan" /\ pc.phase = "returned"
    /\ Len(ScanPrefix) >= 1
    /\ \A k \in 1..Len(ScanPrefix) : ScanPrefix[k] # 202 )
  => /\ last.kind = "bytes"
     /\ last.bytes = ScanFrameIn
     /\ Len(stream) - Len(inbuf) = Len(ScanPrefix) + 8
     /\ data.voltage = PyFloat(1000)

\* eight junk bytes fill the first read and the frame comes after them
C16_Witness ==
  /\ pc.op = "scan" /\ pc.phase = "returned"
  /\ ScanPrefix = << 111, 111, 111, 111, 111, 111, 111, 203 >>
  /\ last.bytes = ScanFrameIn
  /\ inbuf = << >>

\* --------------------------------------------------------------------- C17
\* the first shallow poll cycle that queries an auxiliary register
C17_Step ==
  (lastAux = "start" /\ lastAux' \in { AUX_VALS[k] : k \in 1..5 })
    => (lastAux' = "cap_wh" /\ sent'[Len(sent')][3] = 21)

\* C17: on a newly constructed driver the first shallow poll cycle queries
\* capacity-Wh as its auxiliary register: the rotation starts at the head of
\* the order cap_wh, temp, set_current, set_voltage, set_timer.
C17_FirstShallowQueriesCapWh == [][C17_Step]_vars

\* --------------------------------------------------------------------- C18
\* a verification step that ends the loop as a match
C18_Step ==
  (pc.op = "command" /\ pc.phase = "verify" /\ pc'.verified)
    => /\ last'.got = "value"
       /\ PyEq(data'[VERIFY_CMD[pc.cmd]], pc.value)

\* C18: command() takes an attempt as verified only if the verification read
\* of that attempt succeeded and decoded a value equal to the requested one;
\* an attempt whose read failed (nothing was stored in it) never ends the
\* loop as a match.
C18_MatchOnlyOnFreshRead == [][C18_Step]_vars

\* --------------------------------------------------------------------- C19
\* C19: whenever a query returns a response and not a failure, on the direct
\* path or after any resynchronization, the response is 8 bytes, begins
\* 0xCA 0xCB and is a run of 8 consecutive bytes of the input stream in
\* stream order, the unread input beginning right after it.
C19_ContiguousFrame ==
  (pc.op = "scan" /\ pc.phase = "returned" /\ last.kind = "bytes") =>
    /\ Len(last.bytes) = 8
    /\ last.bytes[1] = 202 /\ last.bytes[2] = 203
    /\ Len(stream) - Len(inbuf) >= 8
    /\ last.bytes
         = SubSeq(stream, Len(stream) - Len(inbuf) - 7, Len(stream) - Len(inbuf))
    /\ inbuf = SubSeq(stream, Len(stream) - Len(inbuf) + 1, Len(stream))

\* a response found inside the first read after one junk byte, completed by
\* one more byte: it is not the true frame, yet a run of the stream
C19_Witness ==
  /\ pc.op = "scan" /\ pc.phase = "returned"
  /\ ScanPrefix = << 111, 202, 203 >>
  /\ last.kind = "bytes"
  /\ last.bytes = << 202, 203, 202, 203, 17, 0, 3, 232 >>
  /\ inbuf = << 206, 207 >>

\* --------------------------------------------------------------------- C20
\* a call of command() with a name that COMMANDS does not hold
C20_Step ==
  (Idle /\ pc'.op = "command"
     /\ pc'.cmd \notin {"enable", "set_voltage", "set_current", "set_timer",
                        "reset"})
    => /\ pc'.phase = "returned" /\ pc'.ret = "False"
       /\ sent' = << >>
       /\ inbuf' = inbuf
       /\ data' = data
       /\ aux_index' = aux_index
       /\ cleared' = "no" /\ faults' = faults

\* C20: command() called with a name outside enable, set-voltage,
\* set-current, set-timer and reset returns False without writing a frame,
\* reading a byte or changing Device State or the auxiliary cursor.
C20_UnknownCommandNoEffect == [][C20_Step]_vars

\* an unknown command returned False on a driver that holds polled values,
\* a moved cursor and an unread byte
C20_Witness ==
  /\ pc.op = "command" /\ pc.cmd = "calibrate"
  /\ pc.phase = "returned" /\ pc.ret = "False"
  /\ sent = << >>
  /\ data.is_on = PyFloat(1000)
  /\ aux_index = 1
  /\ inbuf = << 111 >>

====
